---- MODULE Spec2Model ----
(***************************************************************************)
(* A model of the URLPattern router of src/router.ts: the registration    *)
(* tables (add, use), the resolver with its cache (match), and the chain  *)
(* execution protocol (#handleRoute, composeMiddleware), run step by step *)
(* at the places where user handlers are called and where they settle.    *)
(*                                                                         *)
(* Strings that the code only compares are strings here.  A path or a     *)
(* path template is the sequence of its segments: "/contacts/ada" is      *)
(* <<"contacts", "ada">>, "/:x" is <<":x">>, "/*" is <<"*">>.             *)
(* Handlers are the caller's functions: a terminal handler is named by    *)
(* the number of the add() call that registered it, a middleware by the   *)
(* number of the use() call, and what a handler does when it is invoked   *)
(* (return, call next, throw) is chosen at each invocation.               *)
(*                                                                         *)
(* The earlier router of src/unnamed/part_001, whose routes carry a       *)
(* handlers array, is modelled beside it on variables of its own.         *)
(***************************************************************************)
EXTENDS Integers, Sequences, FiniteSets, TLC

VARIABLES
  routes,         \* the Route objects created by add(), in creation order
  staticRoutes,   \* #staticRoutes: method -> (pathname -> route)
  dynamicRoutes,  \* #dynamicRoutes: method -> list of routes
  middlewares,    \* #middlewares: list of [pattern, handlers]
  cachedRoutes,   \* #cachedRoutes: method -> (path -> route)
  useLog,         \* history: the template of each use() call, in call order
  serving,        \* history: a request has been dispatched
  run,            \* per dispatch: the activation of handle() and of its chain
  \* The router of src/unnamed/part_001, whose routes carry a handlers array:
  vRoutes,        \* its Route objects, in creation order
  vStaticRoutes,  \* its #staticRoutes: method -> (pathname -> route)
  vDynamicRoutes, \* its #dynamicRoutes: method -> list of routes
  vMiddlewares,   \* its #middlewares: list of [pattern, handlers]
  vCachedRoutes,  \* its #cachedRoutes: method -> (path -> route)
  vRun            \* the activation of its handle()

\* The state of the router of part_001.
vvars == <<vRoutes, vStaticRoutes, vDynamicRoutes, vMiddlewares, vCachedRoutes, vRun>>

\* The state of the router of router.ts.
rvars == <<routes, staticRoutes, dynamicRoutes, middlewares, cachedRoutes, run>>

vars == <<routes, staticRoutes, dynamicRoutes, middlewares, cachedRoutes,
          useLog, serving, run, vvars>>

(***************************************************************************)
(* Bounds and input domains.                                               *)
(***************************************************************************)
\* add() calls and use() calls of Spec; use() calls of SpecUse.
MaxAdd == 2
MaxUse == 2
MaxUseOrder == 3
\* add() calls and use() calls of SpecConc.
MaxConcAdd == 1
MaxConcUse == 1
\* add() calls and use() calls of SpecVariant, and the length of a route's
\* handlers array beyond which no further request is served.
MaxVAdd == 2
MaxVUse == 2
MaxVHandlers == 3

\* The methods routes are registered under, and the methods of requests.  A
\* request's method is the client's choice: any HTTP token, among them the
\* names of the properties every plain JavaScript object inherits.
RegMethods == {"GET"}
ObjectPrototypeKeys == {"constructor"}
ReqMethods == {"GET", "POST"} \cup ObjectPrototypeKeys

AddTemplates == {<<"a">>, <<":x">>, <<"*">>}
UseTemplates == {<<":x">>, <<"*">>}
ReqPaths == {<<"a">>, <<"b">>, <<"a", "b">>}

\* Dispatches (activations of handle) that the model tracks.
Disp == {1, 2}

\* What a middleware's code does with its continuation when invoked:
\*   stop        return a response without calling next
\*   pass        return ctx.next()
\*   twice       await ctx.next(); return ctx.next()      (ctx.next read twice)
\*   twiceBound  const n = ctx.next; await n(); return n()
\*   throw       throw an error
MwBehaviours == {"stop", "pass", "twice", "twiceBound", "throw"}
\* The middleware of Spec call next at most once.
SingleNextBehaviours == {"stop", "pass", "throw"}
\* What a terminal handler's code does when invoked.
HandlerBehaviours == {"respond", "throw"}

(***************************************************************************)
(* The pattern matcher (URLPattern), on segment sequences.                 *)
(***************************************************************************)
ParamSegs == {":x"}
ParamName(seg) == IF seg = ":x" THEN "x" ELSE seg

\* pattern.exec({pathname}): ok is "not null", groups is pathname.groups as a
\* set of <<name, captured segments>>.  ":x" captures one segment, a final "*"
\* captures the rest under the name "0".
RECURSIVE Exec(_, _)
Exec(t, p) ==
  IF t = <<>> THEN [ok |-> p = <<>>, groups |-> {}]
  ELSE IF Head(t) = "*"
    THEN [ok |-> Tail(t) = <<>>, groups |-> IF Tail(t) = <<>> THEN {<<"0", p>>} ELSE {}]
  ELSE IF p = <<>> THEN [ok |-> FALSE, groups |-> {}]
  ELSE IF Head(t) \in ParamSegs
    THEN LET r == Exec(Tail(t), Tail(p))
         IN  [ok |-> r.ok,
              groups |-> IF r.ok THEN {<<ParamName(Head(t)), <<Head(p)>>>>} \cup r.groups
                         ELSE {}]
  ELSE IF Head(t) = Head(p) THEN Exec(Tail(t), Tail(p))
  ELSE [ok |-> FALSE, groups |-> {}]

\* pattern.test({pathname})
Test(t, p) == Exec(t, p).ok

\* /\*|\/:/.test(path): a "*" anywhere, or a segment that starts with ":".
IsDynamic(t) == \E i \in 1..Len(t) : t[i] = "*" \/ t[i] \in ParamSegs

(***************************************************************************)
(* Values handlers produce: a Response, or a failure (a thrown error or a  *)
(* rejected promise).                                                      *)
(***************************************************************************)
NoValue == [kind |-> "none", status |-> 0, by |-> "", id |-> 0, params |-> {}, err |-> ""]
Response(status, by, id, params) ==
  [kind |-> "response", status |-> status, by |-> by, id |-> id, params |-> params, err |-> ""]
Failure(err) ==
  [kind |-> "failure", status |-> 0, by |-> "", id |-> 0, params |-> {}, err |-> err]
\* new Response()
EmptyResponse == Response(200, "empty", 0, {})
\* new Response("Not Found", { status: 404 })
NotFoundResponse == Response(404, "notFound", 0, {})
MultipleNextError == "next() called multiple times"

(***************************************************************************)
(* Registration.                                                           *)
(***************************************************************************)
\* obj[key] = value on a plain object used as a map.
Put(obj, key, value) ==
  [k \in DOMAIN obj \cup {key} |-> IF k = key THEN value ELSE obj[k]]

\* The route object of add(): a StaticRoute has no pattern and no params.
NewRoute(method, path, id) ==
  [method |-> method, pathname |-> path, handler |-> id, dynamic |-> IsDynamic(path),
   hasMiddleware |-> FALSE, middleware |-> <<>>, params |-> {}]

\* A variant of AddStatic in which the first registration of a path stays.
AddStaticFirstWins(table, method, path, id) ==
  IF method \in DOMAIN table
  THEN IF path \in DOMAIN table[method] THEN table
       ELSE Put(table, method, Put(table[method], path, id))
  ELSE Put(table, method, Put(<<>>, path, id))

\* #staticRoutes after add() of a static path: the last registration wins.
AddStatic(table, method, path, id) ==
  IF method \in DOMAIN table
  THEN Put(table, method, Put(table[method], path, id))
  ELSE Put(table, method, Put(<<>>, path, id))

\* #dynamicRoutes after add() of a dynamic path: pushed at the end.
AddDynamic(table, method, id) ==
  IF method \in DOMAIN table
  THEN Put(table, method, Append(table[method], id))
  ELSE Put(table, method, <<id>>)

\* add(method, path, handler).  Registration is finished before the first
\* request is served (spec section 3: registration after the first request
\* for a key is undefined), hence ~serving here and in Use.
Add(method, path) ==
  /\ ~serving
  /\ Len(routes) < MaxAdd
  /\ LET id == Len(routes) + 1
     IN  /\ routes' = Append(routes, NewRoute(method, path, id))
         /\ IF ~IsDynamic(path)
            THEN /\ staticRoutes' = AddStatic(staticRoutes, method, path, id)
                 /\ UNCHANGED dynamicRoutes
            ELSE /\ dynamicRoutes' = AddDynamic(dynamicRoutes, method, id)
                 /\ UNCHANGED staticRoutes
  /\ UNCHANGED <<middlewares, cachedRoutes, useLog, serving, run>>
  /\ UNCHANGED vvars

\* A variant of UseTable that never looks for an existing entry.
UseTableAlwaysPush(table, path, id) ==
  Append(table, [pathname |-> path, handlers |-> <<id>>])

\* A variant of UseTable that moves the entry it appends to behind the others.
UseTableMoveLast(table, path, id) ==
  IF \E i \in 1..Len(table) : table[i].pathname = path
  THEN LET i == CHOOSE j \in 1..Len(table) : table[j].pathname = path
           e == [table[i] EXCEPT !.handlers = Append(@, id)]
       IN  Append(SubSeq(table, 1, i - 1) \o SubSeq(table, i + 1, Len(table)), e)
  ELSE Append(table, [pathname |-> path, handlers |-> <<id>>])

\* #middlewares after use(path, handler): appended to the entry whose pattern
\* has this pathname, else a new entry at the end.
UseTable(table, path, id) ==
  IF \E i \in 1..Len(table) : table[i].pathname = path
  THEN LET i == CHOOSE j \in 1..Len(table) :
                  /\ table[j].pathname = path
                  /\ \A k \in 1..(j - 1) : table[k].pathname # path
       IN  [table EXCEPT ![i].handlers = Append(@, id)]
  ELSE Append(table, [pathname |-> path, handlers |-> <<id>>])

Use(path, limit) ==
  /\ ~serving
  /\ Len(useLog) < limit
  /\ middlewares' = UseTable(middlewares, path, Len(useLog) + 1)
  /\ useLog' = Append(useLog, path)
  /\ UNCHANGED <<routes, staticRoutes, dynamicRoutes, cachedRoutes, serving, run>>
  /\ UNCHANGED vvars

(***************************************************************************)
(* match(method, path): the resolver and its cache.                        *)
(***************************************************************************)
\* What a cache slot or a returned callable holds: a registered route object
\* (by reference) or the notFoundRoute object built by the miss.
Ref(idx) == [kind |-> "ref", idx |-> idx, middleware |-> <<>>]
NotFoundRoute(collection) == [kind |-> "notFound", idx |-> 0, middleware |-> collection]
NoRoute == [kind |-> "none", idx |-> 0, middleware |-> <<>>]

\* this.#cachedRoutes?.[method]?.[path].  A method that is no own key of the
\* table but a key of Object.prototype reads the inherited function, which has
\* no property named like a path.
CacheLookup(cache, method, path) ==
  IF method \in DOMAIN cache /\ path \in DOMAIN cache[method]
  THEN cache[method][path]
  ELSE NoRoute

\* A variant of Collect that stops at the first entry whose pattern tests true.
CollectFirstEntry(table, path) ==
  LET hits == {i \in 1..Len(table) : Test(table[i].pathname, path)}
  IN  IF hits = {} THEN <<>>
      ELSE table[CHOOSE i \in hits : \A j \in hits : i <= j].handlers

\* The loop over #middlewares: the handlers of every entry whose pattern
\* tests true, entry after entry, each entry's handlers in their order.
RECURSIVE Collect(_, _)
Collect(table, path) ==
  IF table = <<>> THEN <<>>
  ELSE (IF Test(Head(table).pathname, path) THEN Head(table).handlers ELSE <<>>)
       \o Collect(Tail(table), path)

\* this.#staticRoutes?.[method]?.[path]: 0 stands for undefined.
StaticLookup(table, method, path) ==
  IF method \in DOMAIN table /\ path \in DOMAIN table[method]
  THEN table[method][path]
  ELSE 0

\* A variant of DynamicScan that walks the list from its first element.
DynamicScanForward(list, heap, path) ==
  LET hits == {i \in 1..Len(list) : Exec(heap[list[i]].pathname, path).ok}
  IN  IF hits = {} THEN 0
      ELSE list[CHOOSE i \in hits : \A j \in hits : i <= j]

\* for (let i = list.length; i--;): the last route of the list whose pattern
\* matches, 0 when none does.
DynamicScan(list, heap, path) ==
  LET hits == {i \in 1..Len(list) : Exec(heap[list[i]].pathname, path).ok}
  IN  IF hits = {} THEN 0
      ELSE list[CHOOSE i \in hits : \A j \in hits : j <= i]

\* staticRoute.middleware = middlewareHandler
SetStatic(heap, idx, collection) ==
  [heap EXCEPT ![idx].hasMiddleware = TRUE, ![idx].middleware = collection]

\* A variant of SetDynamic that leaves the route's params as they were.
SetDynamicKeepParams(heap, idx, collection, groups) ==
  [heap EXCEPT ![idx].hasMiddleware = TRUE, ![idx].middleware = collection]

\* dynamicRoute.middleware = middlewareHandler; dynamicRoute.params = groups
SetDynamic(heap, idx, collection, groups) ==
  [heap EXCEPT ![idx].hasMiddleware = TRUE, ![idx].middleware = collection,
               ![idx].params = groups]

\* A variant of CacheStore that keeps the method's other paths.
CacheStoreKeep(cache, method, path, route) ==
  IF method \in DOMAIN cache
  THEN Put(cache, method, Put(cache[method], path, route))
  ELSE Put(cache, method, Put(<<>>, path, route))

\* this.#cachedRoutes[method] = { [path]: route }
CacheStore(cache, method, path, route) ==
  Put(cache, method, Put(<<>>, path, route))

\* The part of match() after a cache miss.  this.#dynamicRoutes[method] of a
\* method that is no own key but a key of Object.prototype is the inherited
\* function (truthy, of length 1, with no element 0): reading .pattern of its
\* element 0 throws a TypeError.
MatchMiss(heap, cache, method, path) ==
  LET collection == Collect(middlewares, path)
      st == StaticLookup(staticRoutes, method, path)
      dy == IF method \in DOMAIN dynamicRoutes
            THEN DynamicScan(dynamicRoutes[method], heap, path)
            ELSE 0
  IN  IF st # 0
      THEN [threw |-> FALSE, hit |-> FALSE, route |-> Ref(st),
            heap |-> SetStatic(heap, st, collection),
            cache |-> CacheStore(cache, method, path, Ref(st))]
      ELSE IF dy # 0
      THEN [threw |-> FALSE, hit |-> FALSE, route |-> Ref(dy),
            heap |-> SetDynamic(heap, dy, collection, Exec(heap[dy].pathname, path).groups),
            cache |-> CacheStore(cache, method, path, Ref(dy))]
      ELSE IF method \notin DOMAIN dynamicRoutes /\ method \in ObjectPrototypeKeys
      THEN [threw |-> TRUE, hit |-> FALSE, route |-> NoRoute, heap |-> heap, cache |-> cache]
      ELSE [threw |-> FALSE, hit |-> FALSE, route |-> NotFoundRoute(collection),
            heap |-> heap,
            cache |-> CacheStore(cache, method, path, NotFoundRoute(collection))]

Match(heap, cache, method, path) ==
  LET cached == CacheLookup(cache, method, path)
  IN  IF cached.kind # "none"
      THEN [threw |-> FALSE, hit |-> TRUE, route |-> cached, heap |-> heap, cache |-> cache]
      ELSE MatchMiss(heap, cache, method, path)

(***************************************************************************)
(* #handleRoute(request, route, context): what it reads off the route.     *)
(***************************************************************************)
\* "params" in route ? route.params : {}
RouteParams(route, heap) ==
  IF route.kind = "ref" /\ heap[route.idx].dynamic THEN heap[route.idx].params ELSE {}

\* route.handler: 0 stands for the not-found handler.
RouteHandler(route, heap) ==
  IF route.kind = "ref" THEN heap[route.idx].handler ELSE 0

\* route.middleware: the composed handler, known by the list it closes over.
RouteMiddleware(route, heap) ==
  IF route.kind = "ref"
  THEN [set |-> heap[route.idx].hasMiddleware, list |-> heap[route.idx].middleware]
  ELSE [set |-> TRUE, list |-> route.middleware]

(***************************************************************************)
(* The activation of one dispatch.                                         *)
(*   pc       idle | matched (match() has returned its callable, which is  *)
(*            not called yet) | mw (the composed middleware runs) |        *)
(*            handler (the terminal handler is about to be called) | done  *)
(*   route    the route the callable returned by match() closes over       *)
(*   handler, mws, params   what #handleRoute read off the route           *)
(*   ctxNext  context.next: absent, the next of #handleRoute (outer), or   *)
(*            next.bind(null, i) of the composed handler (bound)           *)
(*   index    the composed handler's index variable                        *)
(*   stack    the middleware calls that have not returned, innermost last  *)
(*   trace    history of the handler calls and of the results of next()    *)
(*   result   what the promise returned by handle() settled with           *)
(***************************************************************************)
AbsentNext == [kind |-> "absent", i |-> 0]
OuterNext == [kind |-> "outer", i |-> 0]
BoundNext(i) == [kind |-> "bound", i |-> i]

IdleRun ==
  [pc |-> "idle", method |-> "", path |-> <<>>, hit |-> FALSE,
   route |-> NoRoute, handler |-> 0, mws |-> <<>>, params |-> {},
   ctxNext |-> AbsentNext, index |-> -1, stack |-> <<>>, trace |-> <<>>,
   result |-> NoValue]

Frame(pos, id, beh) == [pos |-> pos, id |-> id, beh |-> beh, calls |-> 0, ret |-> NoValue]

InvokeEvent(pos, id, beh) ==
  [ev |-> "invoke", pos |-> pos, id |-> id, beh |-> beh, n |-> 0, val |-> NoValue]
SettleEvent(f, v) ==
  [ev |-> "settle", pos |-> f.pos, id |-> f.id, beh |-> f.beh, n |-> f.calls + 1, val |-> v]
TerminalEvent(pos, id, beh, v) ==
  [ev |-> "terminal", pos |-> pos, id |-> id, beh |-> beh, n |-> 0, val |-> v]

\* A variant of Deliver in which #handleRoute goes on to the terminal handler
\* when the composed handler's promise is rejected.
DeliverRecover(r, v) ==
  IF r.stack = <<>>
  THEN [r EXCEPT !.pc = "handler"]
  ELSE LET f == r.stack[Len(r.stack)]
       IN  [r EXCEPT !.stack[Len(r.stack)] = [f EXCEPT !.calls = f.calls + 1, !.ret = v],
                     !.trace = Append(r.trace, SettleEvent(f, v))]

\* A call made by the innermost running middleware settles with v, or, with
\* no middleware running, the composed handler's promise does: the next of
\* #handleRoute resumes after its first await (a rejection ends it).
Deliver(r, v) ==
  IF r.stack = <<>>
  THEN IF v.kind = "failure"
       THEN [r EXCEPT !.pc = "done", !.result = v]
       ELSE [r EXCEPT !.pc = "handler"]
  ELSE LET f == r.stack[Len(r.stack)]
       IN  [r EXCEPT !.stack[Len(r.stack)] = [f EXCEPT !.calls = f.calls + 1, !.ret = v],
                     !.trace = Append(r.trace, SettleEvent(f, v))]

\* A variant of ComposedNext without the test of i against index.
ComposedNextUnguarded(r, i, beh) ==
  LET r1 == [r EXCEPT !.index = i]
  IN  IF i + 1 > Len(r.mws)
      THEN Deliver(r1, EmptyResponse)
      ELSE [r1 EXCEPT !.ctxNext = BoundNext(i + 1),
                      !.stack = Append(r.stack, Frame(i, r.mws[i + 1], beh)),
                      !.trace = Append(r.trace, InvokeEvent(i, r.mws[i + 1], beh))]

\* next(i) of composeMiddleware; beh is what the middleware does if one is
\* called.  middlewares.at(i) is element i + 1 of the list here.
ComposedNext(r, i, beh) ==
  IF i <= r.index
  THEN Deliver(r, Failure(MultipleNextError))
  ELSE LET r1 == [r EXCEPT !.index = i]
       IN  IF i + 1 > Len(r.mws)
           THEN Deliver(r1, EmptyResponse)
           ELSE [r1 EXCEPT !.ctxNext = BoundNext(i + 1),
                           !.stack = Append(r.stack, Frame(i, r.mws[i + 1], beh)),
                           !.trace = Append(r.trace, InvokeEvent(i, r.mws[i + 1], beh))]

\* #handleRoute: the reads off the route, then next() up to the call of the
\* composed middleware.
HandleRoute(r, route, heap, beh) ==
  LET mw == RouteMiddleware(route, heap)
      r0 == [r EXCEPT !.handler = RouteHandler(route, heap),
                      !.mws = mw.list,
                      !.params = RouteParams(route, heap)]
  IN  IF mw.set
      THEN ComposedNext([r0 EXCEPT !.pc = "mw", !.ctxNext = OuterNext, !.index = -1], 0, beh)
      ELSE [r0 EXCEPT !.pc = "handler"]

\* handle(req, ctx): match, then the call of what match returned.
Handle(d, method, path, beh) ==
  /\ run[d].pc = "idle"
  /\ serving' = TRUE
  /\ LET m == Match(routes, cachedRoutes, method, path)
         r == [IdleRun EXCEPT !.method = method, !.path = path, !.hit = m.hit]
     IN  /\ routes' = m.heap
         /\ cachedRoutes' = m.cache
         /\ run' = [run EXCEPT ![d] =
                      IF m.threw
                      THEN [r EXCEPT !.pc = "done", !.result = Failure("TypeError")]
                      ELSE HandleRoute(r, m.route, m.heap, beh)]
  /\ UNCHANGED <<staticRoutes, dynamicRoutes, middlewares, useLog>>
  /\ UNCHANGED vvars

\* match(method, path) called by itself: the caller keeps the callable.
MatchCall(d, method, path) ==
  /\ run[d].pc = "idle"
  /\ serving' = TRUE
  /\ LET m == Match(routes, cachedRoutes, method, path)
         r == [IdleRun EXCEPT !.method = method, !.path = path, !.hit = m.hit]
     IN  /\ routes' = m.heap
         /\ cachedRoutes' = m.cache
         /\ run' = [run EXCEPT ![d] =
                      IF m.threw
                      THEN [r EXCEPT !.pc = "done", !.result = Failure("TypeError")]
                      ELSE [r EXCEPT !.pc = "matched", !.route = m.route]]
  /\ UNCHANGED <<staticRoutes, dynamicRoutes, middlewares, useLog>>
  /\ UNCHANGED vvars

\* The call of a callable that match returned earlier:
\* (req, ctx) => this.#handleRoute(req, route, ctx), on the route as it is now.
Invoke(d, beh) ==
  /\ run[d].pc = "matched"
  /\ run' = [run EXCEPT ![d] = HandleRoute(run[d], run[d].route, routes, beh)]
  /\ UNCHANGED <<routes, staticRoutes, dynamicRoutes, middlewares, cachedRoutes,
                 useLog, serving>>
  /\ UNCHANGED vvars

\* The innermost running middleware takes its next step: it calls next, or
\* it returns (or throws) and its caller's await settles.  The next it calls
\* is a bound one: every call of a middleware assigns context.next first
\* (CtxNextIsBound below).
Pop(r) == [r EXCEPT !.stack = SubSeq(r.stack, 1, Len(r.stack) - 1)]

MwStep(d, beh) ==
  /\ run[d].pc = "mw"
  /\ run[d].stack # <<>>
  /\ LET r == run[d]
         f == r.stack[Len(r.stack)]
         target == IF f.beh = "twiceBound" THEN BoundNext(f.pos + 1) ELSE r.ctxNext
         wanted == CASE f.beh = "pass" -> 1
                     [] f.beh \in {"twice", "twiceBound"} -> 2
                     [] OTHER -> 0
     IN  /\ target.kind = "bound"
         /\ run' = [run EXCEPT ![d] =
              IF f.beh = "stop" THEN Deliver(Pop(r), Response(200, "middleware", f.id, {}))
              ELSE IF f.beh = "throw" THEN Deliver(Pop(r), Failure("middleware"))
              ELSE IF f.ret.kind = "failure" \/ f.calls = wanted THEN Deliver(Pop(r), f.ret)
              ELSE ComposedNext(r, target.i, beh)]
  /\ UNCHANGED <<routes, staticRoutes, dynamicRoutes, middlewares, cachedRoutes,
                 useLog, serving>>
  /\ UNCHANGED vvars

\* A variant of Terminal that reads params off the route when it calls the
\* handler.
TerminalLateParams(d, beh) ==
  /\ run[d].pc = "handler"
  /\ run[d].handler = 0 => beh = "respond"
  /\ LET r == run[d]
         ps == IF r.handler = 0 THEN {} ELSE RouteParams(Ref(r.handler), routes)
         v == IF r.handler = 0 THEN NotFoundResponse
              ELSE IF beh = "throw" THEN Failure("handler")
              ELSE Response(200, "handler", r.handler, ps)
     IN  run' = [run EXCEPT ![d] =
                   [r EXCEPT !.pc = "done", !.result = v,
                             !.trace = Append(r.trace,
                                TerminalEvent(Len(r.mws), r.handler, beh,
                                              Response(0, "seen", r.handler, ps)))]]
  /\ UNCHANGED <<routes, staticRoutes, dynamicRoutes, middlewares, cachedRoutes,
                 useLog, serving>>
  /\ UNCHANGED vvars

\* The next of #handleRoute after the composed middleware settled: the
\* terminal handler is called with context.params = params.
Terminal(d, beh) ==
  /\ run[d].pc = "handler"
  /\ run[d].handler = 0 => beh = "respond"
  /\ LET r == run[d]
         v == IF r.handler = 0 THEN NotFoundResponse
              ELSE IF beh = "throw" THEN Failure("handler")
              ELSE Response(200, "handler", r.handler, r.params)
     IN  run' = [run EXCEPT ![d] =
                   [r EXCEPT !.pc = "done", !.result = v,
                             !.trace = Append(r.trace,
                                TerminalEvent(Len(r.mws), r.handler, beh,
                                              Response(0, "seen", r.handler, r.params)))]]
  /\ UNCHANGED <<routes, staticRoutes, dynamicRoutes, middlewares, cachedRoutes,
                 useLog, serving>>
  /\ UNCHANGED vvars

\* The caller of handle() has its result; the activation is gone.
Release(d) ==
  /\ run[d].pc = "done"
  /\ run' = [run EXCEPT ![d] = IdleRun]
  /\ UNCHANGED <<routes, staticRoutes, dynamicRoutes, middlewares, cachedRoutes,
                 useLog, serving>>
  /\ UNCHANGED vvars

(***************************************************************************)
(* The router of src/unnamed/part_001.  A route carries one array,         *)
(* handlers: its terminal handler first, then the middleware that match    *)
(* pushed onto it.  #handleRoute walks the array from its end.             *)
(***************************************************************************)
\* The functions found in a handlers array.
HandlerOf(id) == [kind |-> "handler", id |-> id]
MiddlewareOf(id) == [kind |-> "middleware", id |-> id]

\* new Response("Method Not Allowed", { status: 405 })
MethodNotAllowedResponse == Response(405, "methodNotAllowed", 0, {})
\* new Response("Not Found", { status: 404 })
VNotFoundResponse == Response(404, "notFound", 0, {})

\* The route object of add(): handlers: [handler].
VNewRoute(method, path, id) ==
  [method |-> method, pathname |-> path, handlers |-> <<HandlerOf(id)>>,
   dynamic |-> IsDynamic(path), params |-> {}]

\* add(method, path, handler)
VAdd(method, path) ==
  /\ ~serving
  /\ Len(vRoutes) < MaxVAdd
  /\ LET id == Len(vRoutes) + 1
     IN  /\ vRoutes' = Append(vRoutes, VNewRoute(method, path, id))
         /\ IF ~IsDynamic(path)
            THEN /\ vStaticRoutes' =
                      IF method \in DOMAIN vStaticRoutes
                      THEN Put(vStaticRoutes, method, Put(vStaticRoutes[method], path, id))
                      ELSE Put(vStaticRoutes, method, Put(<<>>, path, id))
                 /\ UNCHANGED vDynamicRoutes
            ELSE /\ vDynamicRoutes' =
                      IF method \in DOMAIN vDynamicRoutes
                      THEN Put(vDynamicRoutes, method, Append(vDynamicRoutes[method], id))
                      ELSE Put(vDynamicRoutes, method, <<id>>)
                 /\ UNCHANGED vStaticRoutes
  /\ UNCHANGED <<vMiddlewares, vCachedRoutes, vRun, useLog, serving>>
  /\ UNCHANGED rvars

\* use(path, handler): pushed onto the handlers of the first entry whose
\* pattern has this pathname, else a new entry is pushed.
VUse(path) ==
  /\ ~serving
  /\ Len(useLog) < MaxVUse
  /\ LET h == MiddlewareOf(Len(useLog) + 1)
         found == {i \in 1..Len(vMiddlewares) : vMiddlewares[i].pathname = path}
     IN  vMiddlewares' =
           IF found # {}
           THEN LET i == CHOOSE j \in found : \A k \in found : j <= k
                IN  [vMiddlewares EXCEPT ![i].handlers = Append(@, h)]
           ELSE Append(vMiddlewares, [pathname |-> path, handlers |-> <<h>>])
  /\ useLog' = Append(useLog, path)
  /\ UNCHANGED <<vRoutes, vStaticRoutes, vDynamicRoutes, vCachedRoutes, vRun, serving>>
  /\ UNCHANGED rvars

\* for (let i = this.#middlewares.length; i--;): the handlers arrays of the
\* entries whose pattern tests true, from the last entry to the first.
RECURSIVE VCollect(_, _)
VCollect(table, path) ==
  IF table = <<>> THEN <<>>
  ELSE LET n == Len(table)
       IN  (IF Test(table[n].pathname, path) THEN <<table[n].handlers>> ELSE <<>>)
           \o VCollect(SubSeq(table, 1, n - 1), path)

\* The pushes of #attachMiddleware, array after array.
RECURSIVE Pushed(_)
Pushed(arrays) ==
  IF arrays = <<>> THEN <<>> ELSE Head(arrays) \o Pushed(Tail(arrays))

\* #attachMiddleware(route, middlewares): route.handlers.push of every one.
AttachMiddleware(heap, idx, arrays) ==
  [heap EXCEPT ![idx].handlers = @ \o Pushed(arrays)]

\* for (let i = routes.length; i--;): the last route of the list whose
\* pattern matches, 0 when none does.
VDynamicScan(list, heap, path) ==
  LET hits == {i \in 1..Len(list) : Exec(heap[list[i]].pathname, path).ok}
  IN  IF hits = {} THEN 0
      ELSE list[CHOOSE i \in hits : \A j \in hits : j <= i]

\* What match() comes to: kind is "route" (the callable runs #handleRoute on
\* the route), "methodNotAllowed", "notFound", or "threw".  Reading
\* this.#dynamicRoutes[method] for a method that is no own key but a key of
\* Object.prototype yields the inherited function, which is truthy and of
\* length 1: reading .pattern of its element 0 throws a TypeError.
VOutcome(kind, hit, route, heap, cache) ==
  [kind |-> kind, hit |-> hit, route |-> route, heap |-> heap, cache |-> cache]

VMatch(heap, cache, method, path) ==
  LET cached == IF method \in DOMAIN cache /\ path \in DOMAIN cache[method]
                THEN cache[method][path] ELSE 0
      collection == VCollect(vMiddlewares, path)
      st == IF method \in DOMAIN vStaticRoutes /\ path \in DOMAIN vStaticRoutes[method]
            THEN vStaticRoutes[method][path] ELSE 0
      dy == IF method \in DOMAIN vDynamicRoutes
            THEN VDynamicScan(vDynamicRoutes[method], heap, path) ELSE 0
  IN  IF cached # 0 THEN VOutcome("route", TRUE, cached, heap, cache)
      ELSE IF st # 0
      THEN VOutcome("route", FALSE, st, AttachMiddleware(heap, st, collection),
                    Put(cache, method, Put(<<>>, path, st)))
      ELSE IF method \notin DOMAIN vDynamicRoutes
      THEN IF method \in ObjectPrototypeKeys
           THEN VOutcome("threw", FALSE, 0, heap, cache)
           ELSE VOutcome("methodNotAllowed", FALSE, 0, heap, cache)
      ELSE IF dy # 0
      THEN VOutcome("route", FALSE, dy,
                    [AttachMiddleware(heap, dy, collection) EXCEPT
                       ![dy].params = Exec(heap[dy].pathname, path).groups],
                    Put(cache, method, Put(<<>>, path, dy)))
      ELSE VOutcome("notFound", FALSE, 0, heap, cache)

\* The activation of handle(): pc is idle, running (the middleware called
\* last is about to call next) or done; route is the route #handleRoute
\* runs, index its index variable, trace the handlers called so far.
VIdleRun ==
  [pc |-> "idle", method |-> "", path |-> <<>>, hit |-> FALSE, route |-> 0,
   index |-> 0, params |-> {}, trace |-> <<>>, result |-> NoValue]

\* next() of #handleRoute: index--, then the call of handlers[index], with
\* ctx.next if index > 0 and with ctx.params if not.  beh is what the called
\* function does; a middleware that passes returns what next() gives it.
VNextCall(r, heap, beh) ==
  LET i == r.index - 1
      h == heap[r.route].handlers[i + 1]
      r1 == [r EXCEPT !.index = i, !.trace = Append(@, [handler |-> h, beh |-> beh])]
  IN  IF beh = "pass" THEN [r1 EXCEPT !.pc = "running"]
      ELSE IF beh = "throw" THEN [r1 EXCEPT !.pc = "done", !.result = Failure(h.kind)]
      ELSE [r1 EXCEPT !.pc = "done",
                      !.result = Response(200, h.kind, h.id, IF i > 0 THEN {} ELSE r.params)]

\* #handleRoute up to its next().
VHandleRoute(r, route, heap) ==
  [r EXCEPT !.route = route, !.index = Len(heap[route].handlers),
            !.params = IF heap[route].dynamic THEN heap[route].params ELSE {}]

\* handle(req, ctx): match, then the call of what match returned.  A terminal
\* handler (the only one left when one handler is to be called) responds or
\* throws.
VHandle(method, path, beh) ==
  /\ vRun.pc = "idle"
  /\ \A i \in 1..Len(vRoutes) : Len(vRoutes[i].handlers) <= MaxVHandlers
  /\ serving' = TRUE
  /\ LET m == VMatch(vRoutes, vCachedRoutes, method, path)
         r == [VIdleRun EXCEPT !.method = method, !.path = path, !.hit = m.hit]
     IN  /\ (m.kind = "route" /\ Len(m.heap[m.route].handlers) = 1) => beh # "pass"
         /\ vRoutes' = m.heap
         /\ vCachedRoutes' = m.cache
         /\ vRun' = CASE m.kind = "threw" ->
                           [r EXCEPT !.pc = "done", !.result = Failure("TypeError")]
                      [] m.kind = "methodNotAllowed" ->
                           [r EXCEPT !.pc = "done", !.result = MethodNotAllowedResponse]
                      [] m.kind = "notFound" ->
                           [r EXCEPT !.pc = "done", !.result = VNotFoundResponse]
                      [] OTHER -> VNextCall(VHandleRoute(r, m.route, m.heap), m.heap, beh)
  /\ UNCHANGED <<vStaticRoutes, vDynamicRoutes, vMiddlewares, useLog>>
  /\ UNCHANGED rvars

\* The middleware called last calls ctx.next().
VNext(beh) ==
  /\ vRun.pc = "running"
  /\ vRun.index = 1 => beh # "pass"
  /\ vRun' = VNextCall(vRun, vRoutes, beh)
  /\ UNCHANGED <<vRoutes, vStaticRoutes, vDynamicRoutes, vMiddlewares, vCachedRoutes,
                 useLog, serving>>
  /\ UNCHANGED rvars

\* The caller of handle() has its result; the activation is gone.
VRelease ==
  /\ vRun.pc = "done"
  /\ vRun' = VIdleRun
  /\ UNCHANGED <<vRoutes, vStaticRoutes, vDynamicRoutes, vMiddlewares, vCachedRoutes,
                 useLog, serving>>
  /\ UNCHANGED rvars

(***************************************************************************)
(* Spec: registration, then requests served one at a time.                 *)
(***************************************************************************)
Init ==
  /\ routes = <<>>
  /\ staticRoutes = <<>>
  /\ dynamicRoutes = <<>>
  /\ middlewares = <<>>
  /\ cachedRoutes = <<>>
  /\ useLog = <<>>
  /\ serving = FALSE
  /\ run = [d \in Disp |-> IdleRun]
  /\ vRoutes = <<>>
  /\ vStaticRoutes = <<>>
  /\ vDynamicRoutes = <<>>
  /\ vMiddlewares = <<>>
  /\ vCachedRoutes = <<>>
  /\ vRun = VIdleRun

Next ==
  \/ \E m \in RegMethods, t \in AddTemplates : Add(m, t)
  \/ \E t \in UseTemplates : Use(t, MaxUse)
  \/ \E m \in ReqMethods, p \in ReqPaths, b \in SingleNextBehaviours : Handle(1, m, p, b)
  \/ \E b \in SingleNextBehaviours : MwStep(1, b)
  \/ \E b \in HandlerBehaviours : Terminal(1, b)
  \/ Release(1)

Spec == Init /\ [][Next]_vars

(***************************************************************************)
(* SpecUse: no route is registered (every request ends in the not-found    *)
(* route), up to MaxUseOrder middleware are, and a middleware may call     *)
(* next twice.                                                             *)
(***************************************************************************)
NextUse ==
  \/ \E t \in UseTemplates : Use(t, MaxUseOrder)
  \/ \E m \in ReqMethods, p \in ReqPaths, b \in MwBehaviours : Handle(1, m, p, b)
  \/ \E b \in MwBehaviours : MwStep(1, b)
  \/ \E b \in HandlerBehaviours : Terminal(1, b)
  \/ Release(1)

SpecUse == Init /\ [][NextUse]_vars

(***************************************************************************)
(* SpecConc: two dispatches of GET requests in flight at once.  handle()   *)
(* runs from match to the call of the first middleware without suspending; *)
(* from there on the steps of the two dispatches interleave freely.        *)
(***************************************************************************)
NextConc ==
  \/ \E t \in AddTemplates : Len(routes) < MaxConcAdd /\ Add("GET", t)
  \/ \E t \in UseTemplates : Use(t, MaxConcUse)
  \/ \E d \in Disp, p \in ReqPaths, b \in SingleNextBehaviours : Handle(d, "GET", p, b)
  \/ \E d \in Disp, b \in SingleNextBehaviours : MwStep(d, b)
  \/ \E d \in Disp, b \in HandlerBehaviours : Terminal(d, b)
  \/ \E d \in Disp : Release(d)

SpecConc == Init /\ [][NextConc]_vars

(***************************************************************************)
(* SpecHeld: match() is called by itself and the callables it returns are  *)
(* called later, in any order, two of them being held or running at once.  *)
(***************************************************************************)
NextHeld ==
  \/ \E t \in AddTemplates : Len(routes) < MaxConcAdd /\ Add("GET", t)
  \/ \E t \in UseTemplates : Use(t, MaxConcUse)
  \/ \E d \in Disp, p \in ReqPaths : MatchCall(d, "GET", p)
  \/ \E d \in Disp, b \in SingleNextBehaviours : Invoke(d, b)
  \/ \E d \in Disp, b \in SingleNextBehaviours : MwStep(d, b)
  \/ \E d \in Disp, b \in HandlerBehaviours : Terminal(d, b)
  \/ \E d \in Disp : Release(d)

SpecHeld == Init /\ [][NextHeld]_vars

(***************************************************************************)
(* SpecVariant: the router of part_001: registration, then requests served *)
(* one at a time.                                                          *)
(***************************************************************************)
NextVariant ==
  \/ \E m \in RegMethods, t \in AddTemplates : VAdd(m, t)
  \/ \E t \in UseTemplates : VUse(t)
  \/ \E m \in ReqMethods, p \in ReqPaths, b \in SingleNextBehaviours : VHandle(m, p, b)
  \/ \E b \in SingleNextBehaviours : VNext(b)
  \/ VRelease

SpecVariant == Init /\ [][NextVariant]_vars

(***************************************************************************)
(* What the claims speak of.                                               *)
(***************************************************************************)
\* Positions of the trace of dispatch d.
Pos(d) == 1..Len(run[d].trace)
Ev(d, i) == run[d].trace[i]
IsInvoke(e) == e.ev = "invoke"
IsTerminal(e) == e.ev = "terminal"
IsSettle(e) == e.ev = "settle"

\* The middleware (use() call numbers) registered on a template that matches.
MatchingUses(path) == {u \in 1..Len(useLog) : Test(useLog[u], path)}

\* The middleware called before position i of the trace, in call order.
RECURSIVE InvokedBefore(_, _)
InvokedBefore(tr, i) ==
  IF i <= 1 THEN <<>>
  ELSE InvokedBefore(tr, i - 1) \o (IF IsInvoke(tr[i - 1]) THEN <<tr[i - 1].id>> ELSE <<>>)

\* The middleware chain of dispatch d failed (a throw or a refused next).
ChainFailed(d) ==
  /\ run[d].result.kind = "failure"
  /\ run[d].result.err \in {"middleware", MultipleNextError}

\* While a middleware runs, context.next is a next of the composed handler.
CtxNextIsBound ==
  \A d \in Disp : run[d].stack # <<>> => run[d].ctxNext.kind = "bound"

----------------------------------------------------------------------------
\* C1: once a middleware has returned a response without calling next(), the
\* dispatch calls neither the terminal handler nor a middleware placed after it.
C1_ShortCircuit ==
  \A d \in Disp : \A i \in Pos(d) :
    (IsInvoke(Ev(d, i)) /\ Ev(d, i).beh = "stop") =>
      \A j \in Pos(d) : j > i =>
        /\ ~IsTerminal(Ev(d, j))
        /\ ~(IsInvoke(Ev(d, j)) /\ Ev(d, j).pos > Ev(d, i).pos)

\* C2: the next() of the last middleware of the chain settles with the
\* terminal handler's response, the terminal handler having run before.
C2_NextYieldsTerminal ==
  \A d \in Disp : \A i \in Pos(d) :
    (IsSettle(Ev(d, i)) /\ Ev(d, i).n = 1 /\ Ev(d, i).pos = Len(run[d].mws) - 1) =>
      /\ \E j \in Pos(d) : j < i /\ IsTerminal(Ev(d, j))
      /\ Ev(d, i).val.kind = "response"
      /\ Ev(d, i).val.by \in {"handler", "notFound"}

\* C3: the terminal handler of a dynamic route is called with the params
\* that the route's pattern captures from the request path, on a cache miss
\* and on a cache hit; the handler of a static route is called with none.
C3_ParamsAreCaptures ==
  \A d \in Disp : \A i \in Pos(d) :
    (IsTerminal(Ev(d, i)) /\ Ev(d, i).id # 0) =>
      LET rt == routes[Ev(d, i).id]
          ex == Exec(rt.pathname, run[d].path)
      IN  IF rt.dynamic
          THEN ex.ok /\ Ev(d, i).val.params = ex.groups
          ELSE Ev(d, i).val.params = {}

C3_Witness ==
  \E i \in Pos(1) :
    /\ run[1].hit
    /\ IsTerminal(Ev(1, i)) /\ Ev(1, i).id # 0
    /\ routes[Ev(1, i).id].dynamic
    /\ Ev(1, i).val.params = {<<"x", <<"b">>>>}

\* C4: a dispatch of (method, p) for which a static route was registered
\* resolves to the last such registration whatever dynamic routes match p,
\* and calls its handler unless the middleware chain fails first.
LastStatic(method, path) ==
  LET S == {i \in 1..Len(routes) :
              /\ routes[i].method = method
              /\ routes[i].pathname = path
              /\ ~routes[i].dynamic}
  IN  IF S = {} THEN 0 ELSE CHOOSE i \in S : \A j \in S : j <= i

C4_StaticWins ==
  \A d \in Disp :
    LET st == LastStatic(run[d].method, run[d].path)
    IN  (run[d].pc # "idle" /\ st # 0) =>
          /\ run[d].handler = st
          /\ \A i \in Pos(d) : IsTerminal(Ev(d, i)) => Ev(d, i).id = st
          /\ run[d].pc = "done" =>
               \/ ChainFailed(d)
               \/ \E i \in Pos(d) : IsTerminal(Ev(d, i))

C4_Witness ==
  /\ run[1].pc = "done" /\ run[1].hit
  /\ Len(routes) = 2
  /\ ~routes[1].dynamic /\ routes[2].dynamic
  /\ Test(routes[2].pathname, run[1].path)
  /\ \E i \in Pos(1) : IsTerminal(Ev(1, i)) /\ Ev(1, i).id = 1

\* C5: when every middleware called so far has called next(), the terminal
\* handler (of a static, a dynamic or the not-found route) is called only
\* after every middleware registered on a matching template has been called.
C5_MiddlewareBeforeTerminal ==
  \A d \in Disp : \A i \in Pos(d) :
    (/\ IsTerminal(Ev(d, i))
     /\ \A j \in 1..(i - 1) : IsInvoke(Ev(d, j)) => Ev(d, j).beh = "pass") =>
      LET called == InvokedBefore(run[d].trace, i)
      IN  {called[k] : k \in 1..Len(called)} = MatchingUses(run[d].path)

C5_Witness ==
  \E i \in Pos(1) :
    /\ run[1].hit
    /\ IsTerminal(Ev(1, i)) /\ Ev(1, i).id # 0
    /\ routes[Ev(1, i).id].dynamic
    /\ Len(InvokedBefore(run[1].trace, i)) = 2
    /\ \A j \in 1..(i - 1) : IsInvoke(Ev(1, j)) => Ev(1, j).beh = "pass"

\* C6: of two middleware that both call next(), the one whose use() call came
\* first is called first, whatever use() calls lie between (as claimed).
CallsNext(e) == IsInvoke(e) /\ e.beh \in {"pass", "twice", "twiceBound"}

C6_UseCallOrder ==
  \A d \in Disp : \A i, j \in Pos(d) :
    (CallsNext(Ev(d, i)) /\ CallsNext(Ev(d, j)) /\ Ev(d, i).id < Ev(d, j).id) => i < j

\* C6 (amended): of two middleware that both call next(), A is called before B
\* when A's template was first given to use() before B's template was, or when
\* both were registered on one template and A's use() call came first.
FirstUse(t) == CHOOSE u \in 1..Len(useLog) :
                 useLog[u] = t /\ \A v \in 1..(u - 1) : useLog[v] # t

EntryBefore(a, b) ==
  \/ FirstUse(useLog[a]) < FirstUse(useLog[b])
  \/ useLog[a] = useLog[b] /\ a < b

C6_EntryOrder ==
  \A d \in Disp : \A i, j \in Pos(d) :
    (CallsNext(Ev(d, i)) /\ CallsNext(Ev(d, j)) /\ EntryBefore(Ev(d, i).id, Ev(d, j).id))
      => i < j

C6_Witness ==
  \E i, j \in Pos(1) :
    /\ i < j
    /\ CallsNext(Ev(1, i)) /\ CallsNext(Ev(1, j))
    /\ Ev(1, i).id = 3 /\ Ev(1, j).id = 2
    /\ useLog[1] = useLog[3] /\ useLog[2] # useLog[1]

\* C7: the second next() of one middleware settles with the failure
\* "next() called multiple times" and calls no handler, whatever the
\* middleware after it did.
C7_SecondNextRefused ==
  \A d \in Disp : \A i \in Pos(d) :
    (IsSettle(Ev(d, i)) /\ Ev(d, i).n = 2) =>
      /\ Ev(d, i).val = Failure(MultipleNextError)
      /\ i > 1
      /\ IsSettle(Ev(d, i - 1)) /\ Ev(d, i - 1).pos = Ev(d, i).pos /\ Ev(d, i - 1).n = 1

\* C8: what a dispatch that hits the cache runs (the middleware in their
\* order, the terminal handler, the params) is what the resolution after a
\* miss of the same method and path yields.
C8_HitEqualsFresh ==
  \A d \in Disp :
    (run[d].pc # "idle" /\ run[d].hit) =>
      LET m == MatchMiss(routes, cachedRoutes, run[d].method, run[d].path)
      IN  /\ ~m.threw
          /\ run[d].handler = RouteHandler(m.route, m.heap)
          /\ run[d].mws = RouteMiddleware(m.route, m.heap).list
          /\ run[d].params = RouteParams(m.route, m.heap)

C8_Witness ==
  /\ run[1].pc = "done" /\ run[1].hit
  /\ run[1].handler # 0
  /\ routes[run[1].handler].dynamic
  /\ Len(run[1].mws) = 2
  /\ run[1].params # {}
  /\ "POST" \in DOMAIN cachedRoutes

\* C9: with a route registered for GET on a path and nothing registered for
\* POST, the dispatch of POST on that path ends in a 405 response.
C9_MethodNotAllowed ==
  \A d \in Disp :
    (/\ run[d].pc = "done"
     /\ run[d].method = "POST"
     /\ "POST" \notin (DOMAIN staticRoutes \cup DOMAIN dynamicRoutes)
     /\ StaticLookup(staticRoutes, "GET", run[d].path) # 0
     /\ ~ChainFailed(d)) =>
      run[d].result.kind = "response" /\ run[d].result.status = 405

\* C10: a dispatch whose method and path match no static and no dynamic
\* route of that method ends in a 404 response, not in a failure, unless a
\* middleware failed.
RouteMatches(rt, method, path) ==
  /\ rt.method = method
  /\ IF rt.dynamic THEN Test(rt.pathname, path) ELSE rt.pathname = path

C10_NotFoundIs404 ==
  \A d \in Disp :
    (/\ run[d].pc = "done"
     /\ \A i \in 1..Len(routes) : ~RouteMatches(routes[i], run[d].method, run[d].path)
     /\ ~ChainFailed(d)) =>
      run[d].result.kind = "response" /\ run[d].result.status = 404

\* C11: a dispatch in which a middleware or the terminal handler throws ends
\* with handle's result failing with the thrown error: no response replaces
\* it, the handler that threw is called once, and after a middleware's throw
\* no terminal handler is called.  (The middleware of the model return what
\* next() gave them: none catches.)
Thrown(d, i) ==
  \/ IsInvoke(Ev(d, i)) /\ Ev(d, i).beh = "throw"
  \/ IsTerminal(Ev(d, i)) /\ Ev(d, i).beh = "throw"

C11_FailurePropagates ==
  \A d \in Disp : \A i \in Pos(d) :
    Thrown(d, i) =>
      /\ ~\E j \in Pos(d) :
             j # i /\ Ev(d, j).ev = Ev(d, i).ev /\ Ev(d, j).pos = Ev(d, i).pos
      /\ IsInvoke(Ev(d, i)) => \A j \in Pos(d) : ~IsTerminal(Ev(d, j))
      /\ run[d].pc = "done" =>
            run[d].result = Failure(IF IsInvoke(Ev(d, i)) THEN "middleware" ELSE "handler")

C11_Witness ==
  /\ run[1].pc = "done"
  /\ run[1].result = Failure("middleware")
  /\ run[1].handler # 0
  /\ \E i, j \in Pos(1) :
        /\ i < j
        /\ IsInvoke(Ev(1, i)) /\ Ev(1, i).beh = "pass"
        /\ IsInvoke(Ev(1, j)) /\ Ev(1, j).beh = "throw"

\* C12: the cache keeps what it holds: a (method, path) that match has
\* resolved stays in the cache through every later step, whatever other path
\* of the same method is resolved meanwhile, so that its next match is a hit.
Cached(cache, method, path) == CacheLookup(cache, method, path).kind # "none"

C12_EntriesKept ==
  [][\A m \in ReqMethods, p \in ReqPaths :
       Cached(cachedRoutes, m, p) => Cached(cachedRoutes', m, p)]_vars

\* C13: a step of match or handle (every step from the first dispatch on)
\* changes no route object and none of the route and middleware tables: each
\* route keeps the handler, middleware, params and pattern it was registered
\* with.
C13_TablesUnchanged ==
  [][serving' => /\ routes' = routes
                 /\ staticRoutes' = staticRoutes
                 /\ dynamicRoutes' = dynamicRoutes
                 /\ middlewares' = middlewares]_vars

\* C14: the middleware resolved for a path are the middleware of the use()
\* calls whose template matches the path, each once and none else, those of
\* a template first used earlier before those of a template first used
\* later, those of one template in the order of their use() calls; the
\* entries of the table stand in the order of their templates' first use.
ResolvedFor(s, path) ==
  /\ {s[k] : k \in 1..Len(s)} = MatchingUses(path)
  /\ Len(s) = Cardinality(MatchingUses(path))
  /\ \A k, l \in 1..Len(s) : k < l => EntryBefore(s[k], s[l])

Resolved(d) ==
  /\ run[d].pc # "idle"
  /\ ~(run[d].pc = "done" /\ run[d].result = Failure("TypeError"))

C14_ResolvedSequence ==
  /\ \A i, j \in 1..Len(middlewares) :
        i < j => FirstUse(middlewares[i].pathname) < FirstUse(middlewares[j].pathname)
  /\ \A p \in ReqPaths : ResolvedFor(Collect(middlewares, p), p)
  /\ \A d \in Disp : Resolved(d) => ResolvedFor(run[d].mws, run[d].path)

C14_Witness ==
  /\ Resolved(1) /\ run[1].hit
  /\ run[1].mws = <<1, 3, 2>>
  /\ Len(middlewares) = 2
  /\ \E p \in ReqPaths : Collect(middlewares, p) = <<2>>

\* C15: a dispatch of (method, p) with no static route for it and with
\* dynamic routes of the method matching p runs the handler of the matching
\* route registered last, and that handler is called with the params this
\* route's pattern captures from p.
MatchingDynamic(method, path) ==
  {i \in 1..Len(routes) : routes[i].dynamic /\ RouteMatches(routes[i], method, path)}

C15_LastDynamicWins ==
  \A d \in Disp :
    LET D == MatchingDynamic(run[d].method, run[d].path)
    IN  (/\ run[d].pc # "idle"
         /\ LastStatic(run[d].method, run[d].path) = 0
         /\ D # {}) =>
          LET last == CHOOSE i \in D : \A j \in D : j <= i
          IN  /\ run[d].handler = last
              /\ run[d].params = Exec(routes[last].pathname, run[d].path).groups
              /\ \A i \in Pos(d) : IsTerminal(Ev(d, i)) =>
                    /\ Ev(d, i).id = last
                    /\ Ev(d, i).val.params = run[d].params

C15_Witness ==
  /\ Len(routes) = 2
  /\ routes[1].pathname = <<":x">> /\ routes[2].pathname = <<"*">>
  /\ run[1].path = <<"a">>
  /\ \E i \in Pos(1) :
        /\ IsTerminal(Ev(1, i)) /\ Ev(1, i).id = 2
        /\ Ev(1, i).val.params = {<<"0", <<"a">>>>}

\* C16: in one dispatch no position of the middleware chain is called twice
\* and the terminal handler is called at most once, whether the middleware
\* call next never, once or twice.
C16_InvokedAtMostOnce ==
  \A d \in Disp : \A i, j \in Pos(d) :
    i < j =>
      /\ ~(IsInvoke(Ev(d, i)) /\ IsInvoke(Ev(d, j)) /\ Ev(d, i).pos = Ev(d, j).pos)
      /\ ~(IsTerminal(Ev(d, i)) /\ IsTerminal(Ev(d, j)))

C16_Witness ==
  /\ run[1].pc = "done"
  /\ \E i, j, k \in Pos(1) :
        /\ i < j /\ j < k
        /\ IsInvoke(Ev(1, i)) /\ Ev(1, i).beh \in {"twice", "twiceBound"}
        /\ IsSettle(Ev(1, j)) /\ Ev(1, j).n = 2 /\ Ev(1, j).pos = Ev(1, i).pos
        /\ IsTerminal(Ev(1, k))

\* C17: with two dispatches in flight at once, the terminal handler of each
\* is called with the params the route's pattern captures from the
\* dispatch's own path, the middleware a dispatch calls are among those
\* whose template matches its own path, and they are all of these once the
\* terminal handler is called after middleware that passed.
C17_OwnParamsAndMiddleware ==
  \A d \in Disp : \A i \in Pos(d) :
    /\ IsInvoke(Ev(d, i)) => Ev(d, i).id \in MatchingUses(run[d].path)
    /\ (IsTerminal(Ev(d, i)) /\ Ev(d, i).id # 0 /\ routes[Ev(d, i).id].dynamic) =>
          Ev(d, i).val.params = Exec(routes[Ev(d, i).id].pathname, run[d].path).groups
    /\ (/\ IsTerminal(Ev(d, i))
        /\ \A j \in 1..(i - 1) : IsInvoke(Ev(d, j)) => Ev(d, j).beh = "pass") =>
          LET called == InvokedBefore(run[d].trace, i)
          IN  {called[k] : k \in 1..Len(called)} = MatchingUses(run[d].path)

\* Dispatch 1 waits for its terminal handler after its middleware passed;
\* dispatch 2, of another path, has since resolved to the same dynamic route
\* (the route carries its params), has run other middleware and is done.
C17_Witness ==
  /\ run[1].pc = "handler" /\ run[2].pc = "done"
  /\ run[1].handler # 0 /\ run[1].handler = run[2].handler
  /\ routes[run[1].handler].dynamic
  /\ routes[run[1].handler].params = run[2].params
  /\ run[1].params # run[2].params
  /\ run[1].mws # <<>> /\ run[2].mws = <<>>
  /\ \E i \in Pos(1) : IsInvoke(Ev(1, i)) /\ Ev(1, i).beh = "pass"
  /\ \E i \in Pos(2) : IsTerminal(Ev(2, i)) /\ Ev(2, i).val.params = run[2].params

\* C18: what the callable returned by match(method, p) runs when it is
\* called is the resolution of p: the middleware whose template matches p
\* and, for a dynamic route, the params its pattern captures from p,
\* whatever match has resolved in between.
C18_CallableBoundToPath ==
  \A d \in Disp :
    (run[d].pc \in {"mw", "handler", "done"} /\ run[d].route.kind # "none") =>
      /\ run[d].mws = Collect(middlewares, run[d].path)
      /\ (run[d].route.kind = "ref" /\ routes[run[d].route.idx].dynamic) =>
            run[d].params = Exec(routes[run[d].route.idx].pathname, run[d].path).groups

\* C19: in the router of part_001, the handlers array of a route held by
\* the cache under (method, p) is the route's terminal handler followed by
\* the middleware whose template matches p, each once and none else; and a
\* dispatch calls no middleware whose template does not match its own path.
ApplicableMiddleware(path) == {MiddlewareOf(u) : u \in MatchingUses(path)}

C19_StoredChainIsOfCachedPath ==
  /\ \A m \in DOMAIN vCachedRoutes : \A p \in DOMAIN vCachedRoutes[m] :
        LET hs == vRoutes[vCachedRoutes[m][p]].handlers
            pushed == SubSeq(hs, 2, Len(hs))
        IN  /\ hs[1] = HandlerOf(vCachedRoutes[m][p])
            /\ {pushed[k] : k \in 1..Len(pushed)} = ApplicableMiddleware(p)
            /\ Len(pushed) = Cardinality(ApplicableMiddleware(p))
  /\ \A i \in 1..Len(vRun.trace) :
        vRun.trace[i].handler.kind = "middleware" =>
          vRun.trace[i].handler \in ApplicableMiddleware(vRun.path)

\* C20: in the router of part_001, a dispatch of (method, path) for which
\* no static route is registered ends in the 405 response exactly when no
\* dynamic route is registered under the method, and in the 404 response
\* exactly when dynamic routes are registered under it and none matches.
VDynamicOf(method) ==
  {i \in 1..Len(vRoutes) : vRoutes[i].dynamic /\ vRoutes[i].method = method}

VHasStatic(method, path) ==
  \E i \in 1..Len(vRoutes) :
    ~vRoutes[i].dynamic /\ vRoutes[i].method = method /\ vRoutes[i].pathname = path

C20_NotAllowedOrNotFound ==
  (vRun.pc = "done" /\ ~VHasStatic(vRun.method, vRun.path)) =>
    LET D == VDynamicOf(vRun.method)
    IN  /\ vRun.result = MethodNotAllowedResponse <=> D = {}
        /\ vRun.result = VNotFoundResponse <=>
              (D # {} /\ \A i \in D : ~Test(vRoutes[i].pathname, vRun.path))

====
